---- MODULE Spec2Model ----
(***************************************************************************)
(* The charge-request API of thiha-shop (app/api/charge-requests/route.ts) *)
(* as a state machine: the two Supabase tables it reads and writes, and a  *)
(* bounded number of concurrent GET / POST / PUT calls, each advancing one *)
(* store round-trip (one `await`) at a time.                               *)
(***************************************************************************)
EXTENDS Integers, Sequences, FiniteSets, TLC

(* ------------------------------ bounds -------------------------------- *)

\* Number of HTTP calls in one behaviour; each call slot is used once.
NumCalls == 2

Calls == 1..NumCalls

\* last_charge_date of a user that was never charged: "" (route.ts:52).
NoDate == 0

\* The clock when the first call arrives; the rows that exist by then are older.
SeedTime == 3

Phones == {"p1", "p2"}

Amounts == {5}

(* --------------------------- request bodies --------------------------- *)

\* A character sequence standing for a JSON string.
Digits == <<"0", "1", "2", "3", "4", "5", "6", "7", "8", "9">>

DigitValue(ch) == CHOOSE d \in 0..9 : Digits[d + 1] = ch

IsDigit(ch) == \E d \in 0..9 : Digits[d + 1] = ch

\* The `id` member of a PUT body: absent, null, a boolean, a number or a string.
JsonId(t, n, s) == [t |-> t, n |-> n, s |-> s]

IdInputs ==
    {JsonId("undefined", 0, <<>>), JsonId("null", 0, <<>>), JsonId("true", 0, <<>>)}
    \cup {JsonId("number", n, <<>>) : n \in 1..4}
    \cup {JsonId("string", 0, s) : s \in {<<>>, <<"a", "b", "c">>, <<" ", "3">>}}

NoId == JsonId("undefined", 0, <<>>)

\* String.prototype.trim, on the characters the inputs use.
RECURSIVE TrimLeft(_)
TrimLeft(s) == IF s # <<>> /\ Head(s) = " " THEN TrimLeft(Tail(s)) ELSE s

RECURSIVE TrimRight(_)
TrimRight(s) ==
    IF s # <<>> /\ s[Len(s)] = " " THEN TrimRight(SubSeq(s, 1, Len(s) - 1)) ELSE s

Trim(s) == TrimRight(TrimLeft(s))

RECURSIVE DecimalValue(_)
DecimalValue(s) ==
    IF s = <<>> THEN 0
    ELSE 10 * DecimalValue(SubSeq(s, 1, Len(s) - 1)) + DigitValue(s[Len(s)])

\* Number.isFinite(Number(id)): null and the booleans convert to 0 and 1, a
\* string converts after trimming (the empty string to 0, decimal digits to
\* their value, anything else to NaN), undefined converts to NaN.
NumberIsFinite(v) ==
    CASE v.t = "undefined" -> FALSE
      [] v.t = "null" -> TRUE
      [] v.t = "true" -> TRUE
      [] v.t = "number" -> TRUE
      [] v.t = "string" -> \A i \in 1..Len(Trim(v.s)) : IsDigit(Trim(v.s)[i])

\* Number(id), for an id that NumberIsFinite accepts.
ToNumber(v) ==
    CASE v.t = "null" -> 0
      [] v.t = "true" -> 1
      [] v.t = "number" -> v.n
      [] v.t = "string" -> DecimalValue(Trim(v.s))
      [] OTHER -> 0

\* `id == null` is true of null and of undefined (a body without id, or a
\* body that is not JSON, which req.json().catch turns into {}).
IsNullish(v) == v.t \in {"undefined", "null"}

\* The body of a POST; phone "" stands for a body without phone.
PostBodies == [phone : Phones \cup {""}, amount : Amounts \cup {0}]

\* ChargeRequestSchema.safeParse: phone present, amount a positive integer.
SchemaAccepts(body) == body.phone # "" /\ body.amount > 0

StatusParams == {"pending", "approved", "all", ""}

(* ------------------------------- state -------------------------------- *)

VARIABLES
    users,      \* table Users: row id = index; phone_number, balance, last_charge_date
    requests,   \* table ChargeRequests: row id = index; user_id, amount, approved, requested_at
    pc,         \* where each call is: "idle", the await it is suspended at, "done"
    loc,        \* each call's local variables
    resp,       \* each call's HTTP response, once it has returned
    selectedProducts,        \* page: the cart lines {id, product, quantity}
    showProductModal,        \* page: the item dialog is open
    editingProductId,        \* page: the line being edited, 0 for none (null)
    selectedProductInModal,  \* page: the product chosen in the dialog, or NoProduct
    quantityInModal,         \* page: the quantity shown in the dialog
    pageBalance,             \* page: the state `balance`, the balance the page holds
    balanceSnap,             \* page: the cached answer of /api/balance, or NoSnap
    confirmOpen,             \* page: the purchase confirmation is open
    showReceipt,             \* page: the receipt view is shown
    purchaseData,            \* page: the receipt, or NoPurchase
    alertMsg                 \* page: the alert the last purchase attempt raised, "" for none

\* The state of the purchase page.
page ==
    <<selectedProducts, showProductModal, editingProductId, selectedProductInModal,
      quantityInModal, pageBalance, balanceSnap, confirmOpen, showReceipt,
      purchaseData, alertMsg>>

vars == <<users, requests, pc, loc, resp, page>>

NoLocals ==
    [kind |-> "none", rawId |-> NoId, idNum |-> 0, reqErr |-> FALSE, userId |-> 0,
     amount |-> 0, now |-> NoDate, newBalance |-> 0, phone |-> "", status |-> "",
     foundUser |-> FALSE, insertedId |-> 0, push |-> "none"]

NoResponse == [status |-> 0]

\* The wall clock, in ticks: it advances whenever a call arrives.
Clock == SeedTime + Cardinality({c \in Calls : pc[c] # "idle"})

InProgress(c) == pc[c] \notin {"idle", "done"}

\* json(body, status): the response of a call that returns.
Return(c, body, status) ==
    /\ pc' = [pc EXCEPT ![c] = "done"]
    /\ resp' = [resp EXCEPT ![c] = [status |-> status] @@ body]

\* Mutant of MaybeSingle: the filter on id is lost and the first row comes back.
MaybeSingle_FirstRow(table, id) ==
    IF id \in 1..Len(table) THEN <<table[id]>>
    ELSE IF Len(table) > 0 THEN <<table[1]>> ELSE <<>>

\* supabase ... .eq("id", id).maybeSingle(): the row, or null (here <<>>).
MaybeSingle(table, id) == IF id \in 1..Len(table) THEN <<table[id]>> ELSE <<>>

\* A call may arrive once the calls before it have: the slots are interchangeable.
Arrives(c) == pc[c] = "idle" /\ \A d \in Calls : d < c => pc[d] # "idle"

\* part_000:56-57: no product chosen (null).
NoProduct == [id |-> 0, name |-> "", price |-> 0]

\* part_000:106: the cache of /api/balance before the first answer (undefined).
NoSnap == [exists |-> FALSE, balance |-> 0]

\* part_000:63: no receipt (null).
NoPurchase == [products |-> <<>>, totalPrice |-> 0, remainingBalance |-> 0]

\* The tables when the first call arrives: one user, charged once, with two
\* charge requests waiting for approval.
SeedUsers == <<[phone_number |-> "p1", balance |-> 3, last_charge_date |-> 2]>>

SeedRequests ==
    <<[user_id |-> 1, amount |-> 3, approved |-> TRUE, requested_at |-> 1],
      [user_id |-> 1, amount |-> 5, approved |-> FALSE, requested_at |-> 2],
      [user_id |-> 1, amount |-> 7, approved |-> FALSE, requested_at |-> 3]>>

Init ==
    /\ users = SeedUsers
    /\ requests = SeedRequests
    /\ pc = [c \in Calls |-> "idle"]
    /\ loc = [c \in Calls |-> NoLocals]
    /\ resp = [c \in Calls |-> NoResponse]
    /\ selectedProducts = <<>>
    /\ showProductModal = FALSE
    /\ editingProductId = 0
    /\ selectedProductInModal = NoProduct
    /\ quantityInModal = 1
    /\ pageBalance = 0
    /\ balanceSnap = NoSnap
    /\ confirmOpen = FALSE
    /\ showReceipt = FALSE
    /\ purchaseData = NoPurchase
    /\ alertMsg = ""

(* -------------------------------- PUT --------------------------------- *)

\* route.ts:86-92: parse the body, reject a missing or non-numeric id.
PUT_Begin(c, id) ==
    /\ Arrives(c)
    /\ UNCHANGED page
    /\ UNCHANGED <<users, requests>>
    /\ IF IsNullish(id)
       THEN /\ loc' = [loc EXCEPT ![c] = [NoLocals EXCEPT !.kind = "PUT", !.rawId = id]]
            /\ Return(c, [success |-> FALSE, error |-> "id is required"], 400)
       ELSE IF ~NumberIsFinite(id)
       THEN /\ loc' = [loc EXCEPT ![c] = [NoLocals EXCEPT !.kind = "PUT", !.rawId = id]]
            /\ Return(c, [success |-> FALSE, error |-> "invalid id"], 400)
       ELSE /\ loc' = [loc EXCEPT ![c] =
                         [NoLocals EXCEPT !.kind = "PUT", !.rawId = id,
                                          !.idNum = ToNumber(id)]]
            /\ pc' = [pc EXCEPT ![c] = "put_select_req"]
            /\ UNCHANGED resp

\* A store round-trip that fails resolves to {data: null, error}; it does not
\* throw, so the catch of route.ts:127-129 is not entered by the store.
\* `ok` is whether the store performed the operation of this step.

\* Mutant of AlreadyApproved: the check is not made.
AlreadyApproved_Never(row) == FALSE

\* route.ts:101: the idempotence check on the row that was read.
AlreadyApproved(row) == row.approved

\* route.ts:94-105: read the request; not found, already approved, or go on.
PUT_SelectRequest(c, ok) ==
    /\ pc[c] = "put_select_req"
    /\ UNCHANGED page
    /\ UNCHANGED <<users, requests>>
    /\ LET reqData == IF ok THEN MaybeSingle(requests, loc[c].idNum) ELSE <<>>
           reqErr == ~ok
       IN  IF reqErr \/ reqData = <<>>
           THEN /\ loc' = [loc EXCEPT ![c].reqErr = reqErr]
                /\ Return(c, [success |-> FALSE, error |-> "not found"], 404)
           ELSE IF AlreadyApproved(reqData[1])
           THEN /\ UNCHANGED loc
                /\ Return(c, [success |-> TRUE, already |-> TRUE], 200)
           ELSE /\ loc' = [loc EXCEPT ![c].userId = reqData[1].user_id,
                                      ![c].amount = reqData[1].amount,
                                      ![c].now = Clock]
                /\ pc' = [pc EXCEPT ![c] = "put_update_req"]
                /\ UNCHANGED resp

\* Mutant of ApprovePatch: the flag is flipped instead of set.
ApprovePatch_Toggle(row) == [row EXCEPT !.approved = ~@]

\* route.ts:109: the columns the approval writes.
ApprovePatch(row) == [row EXCEPT !.approved = TRUE]

\* route.ts:107-110: mark the request approved; the result is not looked at.
PUT_UpdateApproved(c, ok) ==
    /\ pc[c] = "put_update_req"
    /\ UNCHANGED page
    /\ requests' = IF ok /\ loc[c].idNum \in 1..Len(requests)
                   THEN [requests EXCEPT ![loc[c].idNum] = ApprovePatch(@)]
                   ELSE requests
    /\ pc' = [pc EXCEPT ![c] = "put_select_user"]
    /\ UNCHANGED <<users, loc, resp>>

\* Mutant of NewBalance: the amount replaces the balance.
NewBalance_Overwrite(balance, amount) == amount

\* route.ts:119: the balance after the credit.
NewBalance(balance, amount) == balance + amount

\* route.ts:112-119: read the owner; a missing row (or a failed read) is a 404.
PUT_SelectUser(c, ok) ==
    /\ pc[c] = "put_select_user"
    /\ UNCHANGED page
    /\ UNCHANGED <<users, requests>>
    /\ LET user == IF ok THEN MaybeSingle(users, loc[c].userId) ELSE <<>>
       IN  IF user = <<>>
           THEN /\ UNCHANGED loc
                /\ Return(c, [success |-> FALSE, error |-> "user not found"], 404)
           ELSE /\ loc' = [loc EXCEPT ![c].phone = user[1].phone_number,
                                      ![c].newBalance =
                                          NewBalance(user[1].balance, loc[c].amount)]
                /\ pc' = [pc EXCEPT ![c] = "put_update_user"]
                /\ UNCHANGED resp

\* route.ts:122: the columns the credit writes.
CreditPatch(row, newBalance, now) ==
    [row EXCEPT !.balance = newBalance, !.last_charge_date = now]

\* Mutant of PUT_UpdateUser: the filter on the user id is lost and every row
\* is written.
PUT_UpdateUser_AllRows(c, ok) ==
    /\ pc[c] = "put_update_user"
    /\ UNCHANGED page
    /\ users' = IF ok
                THEN [u \in 1..Len(users) |->
                         CreditPatch(users[u], loc[c].newBalance, loc[c].now)]
                ELSE users
    /\ UNCHANGED <<requests, loc>>
    /\ Return(c, [success |-> TRUE, balance |-> loc[c].newBalance], 200)

\* route.ts:120-126: write the balance (the result is not looked at) and
\* answer with it.
PUT_UpdateUser(c, ok) ==
    /\ pc[c] = "put_update_user"
    /\ UNCHANGED page
    /\ users' = IF ok /\ loc[c].userId \in 1..Len(users)
                THEN [users EXCEPT ![loc[c].userId] =
                                      CreditPatch(@, loc[c].newBalance, loc[c].now)]
                ELSE users
    /\ UNCHANGED <<requests, loc>>
    /\ Return(c, [success |-> TRUE, balance |-> loc[c].newBalance], 200)

(* -------------------------------- POST -------------------------------- *)

\* route.ts:43-46: validate the body.
POST_Begin(c, body) ==
    /\ Arrives(c)
    /\ UNCHANGED page
    /\ UNCHANGED <<users, requests>>
    /\ IF ~SchemaAccepts(body)
       THEN /\ loc' = [loc EXCEPT ![c] = [NoLocals EXCEPT !.kind = "POST"]]
            /\ Return(c, [error |-> "validation"], 400)
       ELSE /\ loc' = [loc EXCEPT ![c] =
                         [NoLocals EXCEPT !.kind = "POST", !.phone = body.phone,
                                          !.amount = body.amount]]
            /\ pc' = [pc EXCEPT ![c] = "post_find_user"]
            /\ UNCHANGED resp

\* findUserByPhone (lib/db): the id of the user with this phone, 0 for none.
FindUserByPhone(phone) ==
    IF \E u \in 1..Len(users) : users[u].phone_number = phone
    THEN CHOOSE u \in 1..Len(users) :
            /\ users[u].phone_number = phone
            /\ \A v \in 1..Len(users) : users[v].phone_number = phone => u <= v
    ELSE 0

\* route.ts:48-49: look the user up.
POST_FindUser(c) ==
    /\ pc[c] = "post_find_user"
    /\ UNCHANGED page
    /\ UNCHANGED <<users, requests, resp>>
    /\ LET user == FindUserByPhone(loc[c].phone)
       IN  IF user = 0
           THEN /\ pc' = [pc EXCEPT ![c] = "post_insert_user"]
                /\ UNCHANGED loc
           ELSE /\ pc' = [pc EXCEPT ![c] = "post_insert_req"]
                /\ loc' = [loc EXCEPT ![c].userId = user, ![c].foundUser = TRUE]

\* route.ts:52: the row of a user created on their first charge request.
NewUserRow(phone) == [phone_number |-> phone, balance |-> 0, last_charge_date |-> NoDate]

\* route.ts:50-57: create the user.
POST_InsertUser(c, ok) ==
    /\ pc[c] = "post_insert_user"
    /\ UNCHANGED page
    /\ UNCHANGED requests
    /\ IF ~ok
       THEN /\ UNCHANGED <<users, loc>>
            /\ Return(c, [error |-> "store"], 500)
       ELSE /\ users' = Append(users, NewUserRow(loc[c].phone))
            /\ loc' = [loc EXCEPT ![c].userId = Len(users) + 1]
            /\ pc' = [pc EXCEPT ![c] = "post_insert_req"]
            /\ UNCHANGED resp

\* Mutant of NewRequestRow: the request is filed under the first user.
NewRequestRow_FirstUser(userId, amount, at) ==
    [user_id |-> 1, amount |-> amount, approved |-> FALSE, requested_at |-> at]

\* route.ts:64-68: the inserted row; requested_at is the column's default.
NewRequestRow(userId, amount, at) ==
    [user_id |-> userId, amount |-> amount, approved |-> FALSE, requested_at |-> at]

\* route.ts:80: the answer of a POST whose row was inserted.
Created(id) == [success |-> TRUE, id |-> id]

\* route.ts:59-73: insert the request, then notify when push is configured.
POST_InsertRequest(c, ok, pushReady) ==
    /\ pc[c] = "post_insert_req"
    /\ UNCHANGED page
    /\ UNCHANGED users
    /\ IF ~ok
       THEN /\ UNCHANGED <<requests, loc>>
            /\ Return(c, [error |-> "store"], 500)
       ELSE /\ requests' = Append(requests, NewRequestRow(loc[c].userId, loc[c].amount, Clock))
            /\ IF pushReady
               THEN /\ loc' = [loc EXCEPT ![c].insertedId = Len(requests) + 1]
                    /\ pc' = [pc EXCEPT ![c] = "post_notify"]
                    /\ UNCHANGED resp
               ELSE /\ loc' = [loc EXCEPT ![c].insertedId = Len(requests) + 1]
                    /\ Return(c, Created(Len(requests) + 1), 200)

\* notifyAdmins (lib/push): resolves whether or not the push was delivered.
NotifyAdmins(delivered) == IF delivered THEN "sent" ELSE "failed"

\* Mutant of POST_Notify: a push that fails is answered with a 500.
POST_Notify_Propagates(c, delivered) ==
    /\ pc[c] = "post_notify"
    /\ UNCHANGED page
    /\ UNCHANGED <<users, requests>>
    /\ loc' = [loc EXCEPT ![c].push = NotifyAdmins(delivered)]
    /\ IF delivered
       THEN Return(c, Created(loc[c].insertedId), 200)
       ELSE Return(c, [error |-> "push failed"], 500)

\* route.ts:74-80: await the notification, then answer.
POST_Notify(c, delivered) ==
    /\ pc[c] = "post_notify"
    /\ UNCHANGED page
    /\ UNCHANGED <<users, requests>>
    /\ loc' = [loc EXCEPT ![c].push = NotifyAdmins(delivered)]
    /\ Return(c, Created(loc[c].insertedId), 200)

(* -------------------------------- GET --------------------------------- *)

\* route.ts:22-23: the rows the status filter keeps.
Selected(status) ==
    {i \in 1..Len(requests) :
        /\ status = "pending" => ~requests[i].approved
        /\ status = "approved" => requests[i].approved}

\* Mutant of NewestFirst: the order is ascending.
NewestFirst_OldestFirst(ids) ==
    \A i, j \in 1..Len(ids) :
        i < j => requests[ids[i]].requested_at <= requests[ids[j]].requested_at

\* route.ts:21: newest first; rows of one timestamp come in any order.
NewestFirst(ids) ==
    \A i, j \in 1..Len(ids) :
        i < j => requests[ids[i]].requested_at >= requests[ids[j]].requested_at

Orderings(S) ==
    {ids \in [1..Cardinality(S) -> S] : \A i, j \in 1..Cardinality(S) : i # j => ids[i] # ids[j]}

\* route.ts:26-34: what an item shows of a row and its user.
Item(i) ==
    [id |-> i, user_id |-> requests[i].user_id, amount |-> requests[i].amount,
     approved |-> requests[i].approved, requested_at |-> requests[i].requested_at,
     phone |-> users[requests[i].user_id].phone_number,
     currentBalance |-> users[requests[i].user_id].balance,
     last_charge_date |-> users[requests[i].user_id].last_charge_date]

\* route.ts:12-39: list the charge requests.
GET(c, param, ok) ==
    /\ Arrives(c)
    /\ UNCHANGED page
    /\ UNCHANGED <<users, requests>>
    /\ LET status == IF param = "" THEN "all" ELSE param
       IN  /\ loc' = [loc EXCEPT ![c] = [NoLocals EXCEPT !.kind = "GET", !.status = status]]
           /\ IF ~ok
              THEN Return(c, [error |-> "store"], 500)
              ELSE \E ids \in Orderings(Selected(status)) :
                      /\ NewestFirst(ids)
                      /\ Return(c, [items |-> [k \in 1..Len(ids) |-> Item(ids[k])]], 200)

(* ---------------------------- specifications --------------------------- *)

\* One step of call c.
Step(c, ok) ==
    \/ \E id \in IdInputs : ok /\ PUT_Begin(c, id)
    \/ PUT_SelectRequest(c, ok)
    \/ PUT_UpdateApproved(c, ok)
    \/ PUT_SelectUser(c, ok)
    \/ PUT_UpdateUser(c, ok)
    \/ \E body \in PostBodies : ok /\ POST_Begin(c, body)
    \/ ok /\ POST_FindUser(c)
    \/ POST_InsertUser(c, ok)
    \/ \E pushReady \in BOOLEAN : POST_InsertRequest(c, ok, pushReady)
    \/ \E delivered \in BOOLEAN : ok /\ POST_Notify(c, delivered)
    \/ \E param \in StatusParams : GET(c, param, ok)

\* Calls overlap freely and any store round-trip may fail.
Next == \E c \in Calls, ok \in BOOLEAN : Step(c, ok)

Spec == Init /\ [][Next]_vars

\* Calls overlap freely; the store performs every operation.
NextReliable == \E c \in Calls : Step(c, TRUE)

SpecReliable == Init /\ [][NextReliable]_vars

\* One call at a time, on a store that performs every operation.
NextSerial == \E c \in Calls : (\A d \in Calls \ {c} : ~InProgress(d)) /\ Step(c, TRUE)

SpecSerial == Init /\ [][NextSerial]_vars

(* ------------------------- the purchase page --------------------------- *)

\* Most units the cart and the dialog hold together, and the most lines added
\* to a cart since it was last empty.
MaxItems == 3

\* The catalogue /api/products answers with (part_000:125-133, 162-172).
Products ==
    {[id |-> 1, name |-> "tea", price |-> 2], [id |-> 2, name |-> "rice", price |-> 3]}

\* part_000:68-70: the phone saved on this device.
PagePhone == "p1"

\* The ids of the cart lines.
RowIds == {selectedProducts[i].id : i \in 1..Len(selectedProducts)}

\* part_000:237: Date.now().toString(), the time of the click: later than the
\* id of every line of the cart (lines are added more than a millisecond
\* apart). Ids are only compared, so time is counted in lines added since the
\* cart was last empty.
NewRowId ==
    IF selectedProducts = <<>> THEN 1
    ELSE selectedProducts[Len(selectedProducts)].id + 1

RECURSIVE UnitsOf(_)
\* The units in the cart, the line being edited left out.
UnitsOf(rows) ==
    IF rows = <<>> THEN 0
    ELSE (IF Head(rows).id = editingProductId THEN 0 ELSE Head(rows).quantity)
         + UnitsOf(Tail(rows))

\* The main view answers to clicks: no receipt, no dialog over it.
MainView == ~showReceipt /\ ~showProductModal /\ ~confirmOpen

\* part_000:204-219, 490, 513: Add Item (editId = 0) or the edit button of a line.
openProductModal(editId) ==
    /\ MainView
    /\ editId = 0 => UnitsOf(selectedProducts) < MaxItems /\ NewRowId <= MaxItems
    /\ IF editId # 0
       THEN IF editId \in RowIds
            THEN LET existing == CHOOSE i \in 1..Len(selectedProducts) :
                                     selectedProducts[i].id = editId
                 IN  /\ selectedProductInModal' = selectedProducts[existing].product
                     /\ quantityInModal' = selectedProducts[existing].quantity
                     /\ editingProductId' = editId
            ELSE UNCHANGED <<selectedProductInModal, quantityInModal, editingProductId>>
       ELSE /\ selectedProductInModal' = NoProduct
            /\ quantityInModal' = 1
            /\ editingProductId' = 0
    /\ showProductModal' = TRUE
    /\ alertMsg' = ""
    /\ UNCHANGED <<selectedProducts, pageBalance, balanceSnap, confirmOpen,
                   showReceipt, purchaseData>>
    /\ UNCHANGED <<users, requests, pc, loc, resp>>

\* part_000:221-227: what closing the dialog assigns.
closeProductModal ==
    /\ showProductModal' = FALSE
    /\ selectedProductInModal' = NoProduct
    /\ quantityInModal' = 1
    /\ editingProductId' = 0

\* part_000:602, 804: Cancel, or the dialog is dismissed.
CancelModal ==
    /\ showProductModal
    /\ closeProductModal
    /\ alertMsg' = ""
    /\ UNCHANGED <<selectedProducts, pageBalance, balanceSnap, confirmOpen,
                   showReceipt, purchaseData>>
    /\ UNCHANGED <<users, requests, pc, loc, resp>>

\* part_000:229-231, 725: choose a product from the list, which the add
\* dialog shows while none is chosen.
handleProductSelect(product) ==
    /\ showProductModal /\ editingProductId = 0
    /\ selectedProductInModal = NoProduct
    /\ selectedProductInModal' = product
    /\ alertMsg' = ""
    /\ UNCHANGED <<selectedProducts, showProductModal, editingProductId, quantityInModal,
                   pageBalance, balanceSnap, confirmOpen, showReceipt, purchaseData>>
    /\ UNCHANGED <<users, requests, pc, loc, resp>>

\* part_000:710: Change, in the add dialog, drops the chosen product.
ChangeProduct ==
    /\ showProductModal /\ editingProductId = 0
    /\ selectedProductInModal # NoProduct
    /\ selectedProductInModal' = NoProduct
    /\ alertMsg' = ""
    /\ UNCHANGED <<selectedProducts, showProductModal, editingProductId, quantityInModal,
                   pageBalance, balanceSnap, confirmOpen, showReceipt, purchaseData>>
    /\ UNCHANGED <<users, requests, pc, loc, resp>>

\* The quantity buttons are shown in the edit dialog, and in the add dialog
\* once a product is chosen (part_000:638-662, 748-783).
QuantityShown ==
    showProductModal /\ (editingProductId # 0 \/ selectedProductInModal # NoProduct)

\* Mutant of Decreased: the floor is 0.
Decreased_FloorZero(q) == IF q - 1 > 0 THEN q - 1 ELSE 0

\* part_000:643, 759: Math.max(1, quantityInModal - 1).
Decreased(q) == IF q - 1 > 1 THEN q - 1 ELSE 1

DecreaseQuantity ==
    /\ QuantityShown
    /\ quantityInModal' = Decreased(quantityInModal)
    /\ alertMsg' = ""
    /\ UNCHANGED <<selectedProducts, showProductModal, editingProductId,
                   selectedProductInModal, pageBalance, balanceSnap, confirmOpen,
                   showReceipt, purchaseData>>
    /\ UNCHANGED <<users, requests, pc, loc, resp>>

\* part_000:657, 774: quantityInModal + 1.
IncreaseQuantity ==
    /\ QuantityShown
    /\ UnitsOf(selectedProducts) + quantityInModal < MaxItems
    /\ quantityInModal' = quantityInModal + 1
    /\ alertMsg' = ""
    /\ UNCHANGED <<selectedProducts, showProductModal, editingProductId,
                   selectedProductInModal, pageBalance, balanceSnap, confirmOpen,
                   showReceipt, purchaseData>>
    /\ UNCHANGED <<users, requests, pc, loc, resp>>

\* part_000:233-250, 810-811: OK replaces the edited line or appends a new one, then
\* closes the dialog.
handleModalOk ==
    /\ showProductModal
    /\ selectedProductInModal # NoProduct
    /\ LET newRow == [id |-> IF editingProductId # 0 THEN editingProductId ELSE NewRowId,
                      product |-> selectedProductInModal,
                      quantity |-> quantityInModal]
       IN  selectedProducts' =
               IF editingProductId # 0
               THEN [i \in 1..Len(selectedProducts) |->
                        IF selectedProducts[i].id = editingProductId
                        THEN newRow ELSE selectedProducts[i]]
               ELSE Append(selectedProducts, newRow)
    /\ closeProductModal
    /\ alertMsg' = ""
    /\ UNCHANGED <<pageBalance, balanceSnap, confirmOpen, showReceipt, purchaseData>>
    /\ UNCHANGED <<users, requests, pc, loc, resp>>

\* part_000:252-254, 498: the remove button of a line.
removeProduct(id) ==
    /\ MainView
    /\ id \in RowIds
    /\ selectedProducts' = SelectSeq(selectedProducts, LAMBDA row : row.id # id)
    /\ alertMsg' = ""
    /\ UNCHANGED <<showProductModal, editingProductId, selectedProductInModal,
                   quantityInModal, pageBalance, balanceSnap, confirmOpen, showReceipt,
                   purchaseData>>
    /\ UNCHANGED <<users, requests, pc, loc, resp>>

\* part_000:259: item.quantity || 1
OrOne(q) == IF q = 0 THEN 1 ELSE q

RECURSIVE TotalOf_IgnoresQuantity(_)
\* Mutant of TotalOf: the quantity is left out.
TotalOf_IgnoresQuantity(rows) ==
    IF rows = <<>> THEN 0
    ELSE Head(rows).product.price + TotalOf_IgnoresQuantity(Tail(rows))

RECURSIVE TotalOf(_)
\* part_000:257-261: the reduce of getTotalPrice over the cart.
TotalOf(rows) ==
    IF rows = <<>> THEN 0
    ELSE Head(rows).product.price * OrOne(Head(rows).quantity) + TotalOf(Tail(rows))

\* part_000:257-261
getTotalPrice == TotalOf(selectedProducts)

\* part_000:264-272
getSelectedProductsList ==
    [i \in 1..Len(selectedProducts) |->
        [id |-> selectedProducts[i].product.id,
         name |-> selectedProducts[i].product.name,
         price |-> selectedProducts[i].product.price,
         quantity |-> selectedProducts[i].quantity]]

\* part_000:275-279, 350, 401: Back Home on the receipt.
handleReceiptClose ==
    /\ showReceipt
    /\ showReceipt' = FALSE
    /\ purchaseData' = NoPurchase
    /\ selectedProducts' = <<>>
    /\ alertMsg' = ""
    /\ UNCHANGED <<showProductModal, editingProductId, selectedProductInModal,
                   quantityInModal, pageBalance, balanceSnap, confirmOpen>>
    /\ UNCHANGED <<users, requests, pc, loc, resp>>

\* part_000:533-535: the Purchase button opens the confirmation.
PurchaseClick ==
    /\ MainView
    /\ getTotalPrice # 0
    /\ confirmOpen' = TRUE
    /\ alertMsg' = ""
    /\ UNCHANGED <<selectedProducts, showProductModal, editingProductId,
                   selectedProductInModal, quantityInModal, pageBalance, balanceSnap,
                   showReceipt, purchaseData>>
    /\ UNCHANGED <<users, requests, pc, loc, resp>>

\* part_000:544: the confirmation is cancelled or dismissed.
ConfirmCancel ==
    /\ confirmOpen
    /\ confirmOpen' = FALSE
    /\ alertMsg' = ""
    /\ UNCHANGED <<selectedProducts, showProductModal, editingProductId,
                   selectedProductInModal, quantityInModal, pageBalance, balanceSnap,
                   showReceipt, purchaseData>>
    /\ UNCHANGED <<users, requests, pc, loc, resp>>

\* GET /api/balance: the balance stored for the phone.
BalanceOf(phone) ==
    IF FindUserByPhone(phone) = 0 THEN NoSnap
    ELSE [exists |-> TRUE, balance |-> users[FindUserByPhone(phone)].balance]

\* part_000:95-122: /api/balance is fetched again (on mount, after a purchase,
\* on a BALANCE_CHANGED message of another tab) and the effect copies the
\* answer into the page's balance.
BalanceRefresh ==
    /\ balanceSnap # BalanceOf(PagePhone)
    /\ balanceSnap' = BalanceOf(PagePhone)
    /\ pageBalance' = IF balanceSnap'.exists THEN balanceSnap'.balance ELSE pageBalance
    /\ UNCHANGED <<selectedProducts, showProductModal, editingProductId,
                   selectedProductInModal, quantityInModal, confirmOpen, showReceipt,
                   purchaseData, alertMsg>>
    /\ UNCHANGED <<users, requests, pc, loc, resp>>

\* part_000:297-304: the items of the request body.
PurchaseItems(selectedList) ==
    [i \in 1..Len(selectedList) |->
        [product_id |-> selectedList[i].id,
         qty |-> selectedList[i].quantity,
         price |-> selectedList[i].price,
         total |-> selectedList[i].price * selectedList[i].quantity]]

RECURSIVE PurchaseTotal(_)
\* The purchase workflow's total: the sum of unit price times quantity.
PurchaseTotal(items) ==
    IF items = <<>> THEN 0
    ELSE Head(items).price * Head(items).qty + PurchaseTotal(Tail(items))

\* POST /api/purchase, in one step on the store: what it answers.
PurchaseResult(body) ==
    LET u == FindUserByPhone(body.phone)
        total == PurchaseTotal(body.items)
    IN  IF body.items = <<>> \/ \E i \in 1..Len(body.items) : body.items[i].qty <= 0
        THEN [ok |-> FALSE, error |-> "InvalidArgument"]
        ELSE IF u = 0
        THEN [ok |-> FALSE, error |-> "NotFound"]
        ELSE IF total > users[u].balance
        THEN [ok |-> FALSE, error |-> "InsufficientBalance"]
        ELSE [ok |-> TRUE, balance_after |-> users[u].balance - total]

\* POST /api/purchase: the debit it persists.
Debit(body) ==
    users' = IF PurchaseResult(body).ok
             THEN [users EXCEPT ![FindUserByPhone(body.phone)].balance =
                                    PurchaseResult(body).balance_after]
             ELSE users

\* Mutant of InsufficientLocally: the page asks the server whatever it holds.
InsufficientLocally_Never(balance, totalPrice) == FALSE

\* part_000:289: balance < totalPrice
InsufficientLocally(balance, totalPrice) == balance < totalPrice

\* part_000:312: Number(result.balance_after ?? balance - totalPrice)
NewBal(result, balance, totalPrice) ==
    IF "balance_after" \in DOMAIN result THEN result.balance_after
    ELSE balance - totalPrice

\* part_000:341, 346: the alert of a purchase that failed (its text, in
\* Japanese in the source, says so).
FailedAlert == "purchase failed"

\* part_000:341: JSON.stringify of the error string, or the failure text.
ErrorAlert(error) == IF error = "" THEN FailedAlert ELSE "\"" \o error \o "\""

\* part_000:549-552, 281-348: Purchase in the confirmation closes it and runs
\* handlePurchase; `reached` tells whether the request got its answer (else
\* the fetch throws and the catch of part_000:344-347 runs).
handlePurchase(reached) ==
    /\ confirmOpen
    /\ confirmOpen' = FALSE
    /\ UNCHANGED <<selectedProducts, showProductModal, editingProductId,
                   selectedProductInModal, quantityInModal>>
    /\ UNCHANGED <<requests, pc, loc, resp>>
    /\ LET selectedList == getSelectedProductsList
           totalPrice == getTotalPrice
           body == [phone |-> PagePhone, items |-> PurchaseItems(selectedList)]
           result == PurchaseResult(body)
       IN  IF Len(selectedList) = 0
           THEN /\ alertMsg' = "Please select items"
                /\ UNCHANGED <<users, pageBalance, balanceSnap, showReceipt, purchaseData>>
           ELSE IF InsufficientLocally(pageBalance, totalPrice)
           THEN /\ alertMsg' = "Shortage of Balance"
                /\ UNCHANGED <<users, pageBalance, balanceSnap, showReceipt, purchaseData>>
           ELSE IF ~reached
           THEN /\ alertMsg' = FailedAlert
                /\ UNCHANGED <<users, pageBalance, balanceSnap, showReceipt, purchaseData>>
           ELSE /\ Debit(body)
                /\ IF result.ok
                   THEN /\ pageBalance' = NewBal(result, pageBalance, totalPrice)
                        /\ balanceSnap' = [exists |-> TRUE, balance |-> pageBalance']
                        /\ purchaseData' = [products |-> selectedList,
                                            totalPrice |-> totalPrice,
                                            remainingBalance |-> pageBalance']
                        /\ showReceipt' = TRUE
                        /\ alertMsg' = ""
                   ELSE /\ alertMsg' = ErrorAlert(result.error)
                        /\ UNCHANGED <<pageBalance, balanceSnap, showReceipt, purchaseData>>

\* A purchase of one unit of a product for the same phone from another device.
OtherDevicePurchase(product) ==
    /\ LET body == [phone |-> PagePhone,
                    items |-> <<[product_id |-> product.id, qty |-> 1,
                                 price |-> product.price, total |-> product.price]>>]
       IN  PurchaseResult(body).ok /\ Debit(body)
    /\ UNCHANGED <<requests, pc, loc, resp, page>>

\* The seed charge requests waiting for approval.
PendingSeeds == {r \in 1..Len(SeedRequests) : ~SeedRequests[r].approved}

\* The id the administrator approves while the page is in use: the pending
\* charge request asked for first.
ApprovedIds ==
    {id \in IdInputs :
        /\ id.t = "number" /\ id.n \in PendingSeeds
        /\ \A r \in PendingSeeds :
              SeedRequests[id.n].requested_at <= SeedRequests[r].requested_at}

\* A step of the administrator's approval of a charge request: call c of
\* PUT, the only call made while the page is in use.
Approve(c) ==
    /\ \A d \in Calls \ {c} : pc[d] = "idle"
    /\ \/ \E id \in ApprovedIds : PUT_Begin(c, id)
       \/ PUT_SelectRequest(c, TRUE)
       \/ PUT_UpdateApproved(c, TRUE)
       \/ PUT_SelectUser(c, TRUE)
       \/ PUT_UpdateUser(c, TRUE)

NextPage ==
    \/ \E editId \in {0} \cup RowIds : openProductModal(editId)
    \/ CancelModal
    \/ \E product \in Products : handleProductSelect(product)
    \/ ChangeProduct
    \/ DecreaseQuantity
    \/ IncreaseQuantity
    \/ handleModalOk
    \/ \E id \in RowIds : removeProduct(id)
    \/ PurchaseClick
    \/ ConfirmCancel
    \/ \E reached \in BOOLEAN : handlePurchase(reached)
    \/ handleReceiptClose
    \/ BalanceRefresh
    \/ \E product \in Products : OtherDevicePurchase(product)
    \/ \E c \in Calls : Approve(c)

\* The page in use, another device buying for the same phone, and the
\* administrator approving charge requests, on a store that performs every
\* operation.
SpecPage == Init /\ [][NextPage]_vars

(* ------------------------------- claims -------------------------------- *)

Has(r, f) == f \in DOMAIN r

\* The responses of PUT (route.ts:88, 92, 100, 101, 117, 126).
IsCredited(r) == r.status = 200 /\ Has(r, "balance")

IsAlready(r) == r = [status |-> 200, success |-> TRUE, already |-> TRUE]

IsNotFound(r) == r = [status |-> 404, success |-> FALSE, error |-> "not found"]

Done(c, kind) == pc[c] = "done" /\ loc[c].kind = kind

\* Call c takes a step.
Steps(c) == pc'[c] # pc[c]

StoresUnchanged == users' = users /\ requests' = requests

RECURSIVE SumApproved(_, _)
SumApproved(u, n) ==
    IF n = 0 THEN 0
    ELSE SumApproved(u, n - 1)
         + (IF requests[n].user_id = u /\ requests[n].approved THEN requests[n].amount ELSE 0)

\* The amounts of the approved charge requests of user u, summed.
Credited(u) == SumApproved(u, Len(requests))


\* C1: when the only calls made are PUT calls for one pending charge request,
\* and all of them have returned, its owner's balance is the balance before
\* plus the request's amount, once.
C1_CreditedAtMostOnce ==
    \A r \in PendingSeeds :
        (/\ \A c \in Calls : Done(c, "PUT") /\ loc[c].idNum = r)
        => users[SeedRequests[r].user_id].balance
             = SeedUsers[SeedRequests[r].user_id].balance + SeedRequests[r].amount

\* C2: when two PUT calls, for two different pending charge requests of one
\* user, have both returned {success, balance} and no other call was made,
\* the user's balance is the balance before plus both amounts.
C2_NoLostUpdate ==
    \A c1, c2 \in Calls : \A r1, r2 \in PendingSeeds :
        (/\ r1 # r2
         /\ SeedRequests[r1].user_id = SeedRequests[r2].user_id
         /\ Done(c1, "PUT") /\ loc[c1].idNum = r1 /\ IsCredited(resp[c1])
         /\ Done(c2, "PUT") /\ loc[c2].idNum = r2 /\ IsCredited(resp[c2])
         /\ \A d \in Calls \ {c1, c2} : pc[d] = "idle")
        => users[SeedRequests[r1].user_id].balance
             = SeedUsers[SeedRequests[r1].user_id].balance
               + SeedRequests[r1].amount + SeedRequests[r2].amount

\* C3: whenever no PUT call is in progress, the amount of every approved
\* charge request is in its owner's balance: the balance is at least the sum
\* of the owner's approved amounts.
C3_NoPartialApproval ==
    (\A c \in Calls : ~(InProgress(c) /\ loc[c].kind = "PUT"))
    => \A u \in 1..Len(users) : users[u].balance >= Credited(u)

\* C4: with one call at a time and a store that performs every operation, a
\* PUT call for a pending charge request whose owner exists goes through its
\* four store operations and ends with the request approved, the owner's
\* balance raised by the request's amount, the owner's last_charge_date at
\* the time of the call, and the answer 200 {success, balance} carrying the
\* stored balance.
C4_ApproveCredits ==
    [][\A c \in Calls :
        (Steps(c) /\ loc[c].kind = "PUT" /\ loc[c].idNum \in 1..Len(requests)) =>
            LET id == loc[c].idNum
                u == requests[id].user_id
            IN  /\ (pc[c] = "put_select_req" /\ ~requests[id].approved /\ u \in 1..Len(users))
                   => pc'[c] = "put_update_req"
                /\ pc[c] = "put_update_req"
                   => pc'[c] = "put_select_user" /\ requests'[id].approved
                /\ pc[c] = "put_select_user" => pc'[c] = "put_update_user"
                /\ pc[c] = "put_update_user"
                   => /\ pc'[c] = "done"
                      /\ requests'[id].approved
                      /\ users'[u].balance = users[u].balance + requests[id].amount
                      /\ users'[u].last_charge_date = Clock
                      /\ resp'[c] = [status |-> 200, success |-> TRUE,
                                     balance |-> users'[u].balance]]_vars

C4_Witness ==
    \E c \in Calls :
        /\ Done(c, "PUT") /\ IsCredited(resp[c])
        /\ requests[loc[c].idNum].approved
        /\ users[loc[c].userId].balance = resp[c].balance
        /\ users[loc[c].userId].balance
             = SeedUsers[loc[c].userId].balance + requests[loc[c].idNum].amount
        /\ users[loc[c].userId].last_charge_date = loc[c].now

\* C5: on a store that performs every operation, a PUT call that finds its
\* charge request approved answers 200 {success, already} and changes no
\* user and no charge request, however many calls do so and however they
\* overlap.
C5_ApproveIdempotent ==
    [][\A c \in Calls :
        (/\ Steps(c) /\ pc[c] = "put_select_req"
         /\ loc[c].idNum \in 1..Len(requests)
         /\ requests[loc[c].idNum].approved)
        => /\ pc'[c] = "done"
           /\ IsAlready(resp'[c])
           /\ StoresUnchanged]_vars

C5_Witness ==
    \E c, d \in Calls :
        /\ Done(c, "PUT") /\ IsCredited(resp[c])
        /\ Done(d, "PUT") /\ IsAlready(resp[d])
        /\ loc[c].idNum = loc[d].idNum
        /\ users[loc[c].userId].balance = resp[c].balance

\* C6: in every step, every charge request stays in the table, a request that
\* is approved stays approved with its amount, and a request that is new in
\* the table is not approved.
C6_LifecycleOneWay ==
    [][/\ Len(requests') >= Len(requests)
       /\ \A i \in 1..Len(requests) :
             requests[i].approved
             => requests'[i].approved /\ requests'[i].amount = requests[i].amount
       /\ \A j \in (Len(requests) + 1)..Len(requests') : ~requests'[j].approved]_vars

C6_Witness ==
    /\ Len(requests) > Len(SeedRequests)
    /\ \E i \in PendingSeeds : requests[i].approved

\* C7: a PUT call whose id matches no charge request when it is looked up
\* returns 404 "not found", in that step and without changing a user or a
\* charge request; nor does the step in which the call arrived.
C7_UnknownIdNotFound ==
    [][\A c \in Calls :
        /\ (Steps(c) /\ pc[c] = "idle" /\ loc'[c].kind = "PUT") => StoresUnchanged
        /\ (Steps(c) /\ pc[c] = "put_select_req" /\ loc[c].idNum \notin 1..Len(requests))
           => /\ pc'[c] = "done"
              /\ IsNotFound(resp'[c])
              /\ StoresUnchanged]_vars

C7_Witness ==
    \E c, d \in Calls :
        /\ c # d
        /\ Done(c, "PUT") /\ IsNotFound(resp[c]) /\ ~loc[c].reqErr
        /\ Done(d, "PUT") /\ IsNotFound(resp[d]) /\ ~loc[d].reqErr
        /\ loc[c].idNum = loc[d].idNum
        /\ loc[c].idNum \notin 1..Len(requests)
        /\ users = SeedUsers /\ requests = SeedRequests

\* A numeric identifier: a number, or a string of decimal digits.
ValidIdentifier(v) ==
    \/ v.t = "number"
    \/ /\ v.t = "string"
       /\ Trim(v.s) # <<>>
       /\ \A i \in 1..Len(Trim(v.s)) : IsDigit(Trim(v.s)[i])

\* C8: a PUT call whose id is missing, null or not a numeric identifier has
\* returned 400 with success false as soon as it has arrived: it never waits
\* on a lookup.
C8_InvalidIdRejected ==
    \A c \in Calls :
        (loc[c].kind = "PUT" /\ ~ValidIdentifier(loc[c].rawId))
        => /\ pc[c] = "done"
           /\ resp[c].status = 400
           /\ resp[c].success = FALSE

\* C9: on a store that performs every operation, a POST call with a valid
\* body looks the user up, inserts a user row (that phone, balance 0, no
\* last_charge_date) exactly when no user has the phone, inserts one charge
\* request row (not approved, the submitted amount, owned by a user of that
\* phone) and answers 200 {success, id} with the id of that row; no step of
\* it changes a user that exists.
C9_PostCreates ==
    [][\A c \in Calls :
        (Steps(c) /\ loc'[c].kind = "POST") =>
            LET hasUser == \E u \in 1..Len(users) : users[u].phone_number = loc[c].phone
                newId == Len(requests) + 1
            IN  /\ \A u \in 1..Len(users) : users'[u] = users[u]
                /\ pc[c] = "idle"
                   => /\ StoresUnchanged
                      /\ (loc'[c].phone \in Phones /\ loc'[c].amount \in Amounts)
                         => pc'[c] = "post_find_user"
                /\ pc[c] = "post_find_user"
                   => /\ StoresUnchanged
                      /\ pc'[c] = IF hasUser THEN "post_insert_req" ELSE "post_insert_user"
                      /\ hasUser => users[loc'[c].userId].phone_number = loc[c].phone
                /\ pc[c] = "post_insert_user"
                   => /\ requests' = requests
                      /\ users' = Append(users, [phone_number |-> loc[c].phone,
                                                 balance |-> 0,
                                                 last_charge_date |-> NoDate])
                      /\ loc'[c].userId = Len(users')
                      /\ pc'[c] = "post_insert_req"
                /\ pc[c] = "post_insert_req"
                   => /\ users' = users
                      /\ Len(requests') = newId
                      /\ SubSeq(requests', 1, Len(requests)) = requests
                      /\ ~requests'[newId].approved
                      /\ requests'[newId].amount = loc[c].amount
                      /\ requests'[newId].user_id \in 1..Len(users)
                      /\ users[requests'[newId].user_id].phone_number = loc[c].phone
                      /\ loc'[c].insertedId = newId
                      /\ pc'[c] \in {"post_notify", "done"}
                      /\ pc'[c] = "done"
                         => resp'[c] = [status |-> 200, success |-> TRUE, id |-> newId]
                /\ pc[c] = "post_notify"
                   => /\ StoresUnchanged
                      /\ pc'[c] = "done"
                      /\ resp'[c] = [status |-> 200, success |-> TRUE,
                                     id |-> loc[c].insertedId]]_vars

C9_Witness ==
    \E c \in Calls :
        /\ Done(c, "POST") /\ Has(resp[c], "id")
        /\ ~loc[c].foundUser
        /\ users[loc[c].userId]
             = [phone_number |-> loc[c].phone, balance |-> 0, last_charge_date |-> NoDate]
        /\ requests[resp[c].id].user_id = loc[c].userId
        /\ requests[resp[c].id].amount = loc[c].amount
        /\ Len(requests) = Len(SeedRequests) + 1
        /\ Len(users) = Len(SeedUsers) + 1

\* C10: a POST call that has inserted its charge request row and has returned
\* has answered 200 {success, id} with the row's id, whether the push to the
\* administrators was delivered, failed or was not attempted.
C10_NotifyFailureSwallowed ==
    \A c \in Calls :
        (Done(c, "POST") /\ loc[c].insertedId # 0)
        => resp[c] = [status |-> 200, success |-> TRUE, id |-> loc[c].insertedId]

C10_Witness ==
    \E c \in Calls :
        /\ Done(c, "POST") /\ loc[c].push = "failed"
        /\ loc[c].insertedId \in 1..Len(requests)
        /\ resp[c] = [status |-> 200, success |-> TRUE, id |-> loc[c].insertedId]

\* C11: a PUT call that was the only call made and has answered
\* {success, balance} has had both its writes committed: its charge request
\* is approved and its owner's stored balance is the balance it answered.
C11_SuccessOnlyIfCommitted ==
    \A c \in Calls :
        (/\ Done(c, "PUT") /\ IsCredited(resp[c])
         /\ \A d \in Calls \ {c} : pc[d] = "idle")
        => /\ requests[loc[c].idNum].approved
           /\ users[loc[c].userId].balance = resp[c].balance

\* C12: a step changes the stored balance of a user only if it is the step
\* in which a PUT call answers {success, balance}, and then only of the
\* owner of that call's charge request; no step removes a user. So GET,
\* POST, and the PUT calls that answer an error or already:true change no
\* balance.
C12_BalanceFrame ==
    [][/\ Len(users') >= Len(users)
       /\ \A u \in 1..Len(users) :
             users'[u].balance # users[u].balance
             => \E c \in Calls :
                   /\ Steps(c) /\ loc[c].kind = "PUT"
                   /\ IsCredited(resp'[c])
                   /\ loc[c].idNum \in 1..Len(requests)
                   /\ u = requests[loc[c].idNum].user_id]_vars

C12_Witness ==
    \E c \in Calls :
        /\ Done(c, "PUT") /\ IsCredited(resp[c])
        /\ Len(users) > Len(SeedUsers)
        /\ loc[c].userId > Len(SeedUsers)
        /\ users[loc[c].userId].balance = requests[loc[c].idNum].amount
        /\ \A u \in 1..Len(SeedUsers) : users[u] = SeedUsers[u]

\* C16: on a store that performs every operation, a GET call answers in the
\* step in which it arrives, with 200 and one item for each charge request
\* its status selects (pending: not approved; approved: approved; all or no
\* status: every one), each once, in non-increasing order of requested_at,
\* and changes no user and no charge request.
C16_GetLists ==
    [][\A c \in Calls :
        (Steps(c) /\ loc'[c].kind = "GET") =>
            /\ StoresUnchanged
            /\ pc[c] = "idle" /\ pc'[c] = "done"
            /\ resp'[c].status = 200 /\ Has(resp'[c], "items")
            /\ loc'[c].status \in {"pending", "approved", "all"}
            /\ LET items == resp'[c].items
                   want == {i \in 1..Len(requests) :
                               \/ loc'[c].status = "all"
                               \/ loc'[c].status = "pending" /\ ~requests[i].approved
                               \/ loc'[c].status = "approved" /\ requests[i].approved}
               IN  /\ {items[k].id : k \in 1..Len(items)} = want
                   /\ Len(items) = Cardinality(want)
                   /\ \A k \in 1..Len(items) :
                         /\ items[k].approved = requests[items[k].id].approved
                         /\ items[k].requested_at = requests[items[k].id].requested_at
                   /\ \A k \in 1..(Len(items) - 1) :
                         items[k].requested_at >= items[k + 1].requested_at]_vars

C16_Witness ==
    \E c \in Calls :
        /\ Done(c, "GET") /\ loc[c].status = "pending" /\ Has(resp[c], "items")
        /\ Len(resp[c].items) >= 2
        /\ Len(resp[c].items) < Len(requests)
        /\ resp[c].items[1].requested_at > resp[c].items[Len(resp[c].items)].requested_at

\* C18: when the only calls made are POST calls for one phone that had no
\* user, and all of them have returned, one user row has that phone and
\* every charge request the calls created belongs to it.
C18_OneUserPerPhone ==
    \A ph \in Phones :
        (/\ \A u \in 1..Len(SeedUsers) : SeedUsers[u].phone_number # ph
         /\ \A c \in Calls : Done(c, "POST") /\ loc[c].phone = ph)
        => /\ Cardinality({u \in 1..Len(users) : users[u].phone_number = ph}) = 1
           /\ \A i \in (Len(SeedRequests) + 1)..Len(requests) :
                 users[requests[i].user_id].phone_number = ph
                 /\ requests[i].user_id = FindUserByPhone(ph)

\* A purchase attempt: the confirmation closes and handlePurchase ends with
\* an alert or with the receipt.
Attempts == confirmOpen /\ ~confirmOpen' /\ (alertMsg' # "" \/ showReceipt')

\* The balance stored for the page's phone.
Stored == users[FindUserByPhone(PagePhone)].balance

\* What an attempt that fails leaves alone: the stored balance, the cart, the
\* receipt and the balance the page holds.
NothingBought ==
    UNCHANGED <<users, requests, selectedProducts, showReceipt, purchaseData,
                pageBalance, balanceSnap>>

\* C13: a purchase attempt of a page that has loaded its balance, for a total
\* within the stored balance, whose request is not lost, lowers the stored
\* balance by the total and shows a receipt whose remainingBalance is the new
\* stored balance, however stale the balance the page holds.
C13_FundedPurchaseDebits ==
    [][(/\ Attempts /\ balanceSnap.exists
        /\ getTotalPrice <= Stored
        /\ alertMsg' # FailedAlert)
       => /\ Stored' = Stored - getTotalPrice
          /\ showReceipt'
          /\ purchaseData'.remainingBalance = Stored']_vars

\* C14: a purchase attempt for a total above the balance the page holds ends
\* with the alert "Shortage of Balance" and no request: the stored balance,
\* the cart and the receipt stay as they were, whatever the store holds. An
\* attempt the page lets through for a total above the stored balance ends
\* with the InsufficientBalance error (or the failure alert, if the request is
\* lost) and changes nothing either.
C14_InsufficientNoMutation ==
    [][Attempts =>
        /\ getTotalPrice > pageBalance
           => alertMsg' = "Shortage of Balance" /\ NothingBought
        /\ (getTotalPrice <= pageBalance /\ getTotalPrice > Stored)
           => /\ alertMsg' \in {ErrorAlert("InsufficientBalance"), FailedAlert}
              /\ NothingBought]_vars

C14_Witness ==
    /\ alertMsg = "Shortage of Balance"
    /\ balanceSnap.exists
    /\ getTotalPrice > pageBalance
    /\ getTotalPrice <= Stored
    /\ ~showReceipt

RECURSIVE SumPriceQty(_)
\* The sum of price x quantity over the lines of a receipt.
SumPriceQty(products) ==
    IF products = <<>> THEN 0
    ELSE Head(products).price * Head(products).quantity + SumPriceQty(Tail(products))

RECURSIVE SumTotals(_)
\* The sum of the total fields of the items of a request.
SumTotals(items) ==
    IF items = <<>> THEN 0 ELSE Head(items).total + SumTotals(Tail(items))

\* C15: when a purchase succeeds, the receipt lists the cart's lines, and its
\* totalPrice is the sum of price x quantity over them and the sum of the
\* total fields of the items sent.
C15_ReceiptTotal ==
    [][(~showReceipt /\ showReceipt')
       => /\ purchaseData'.products = getSelectedProductsList
          /\ purchaseData'.totalPrice = SumPriceQty(purchaseData'.products)
          /\ purchaseData'.totalPrice = SumTotals(PurchaseItems(getSelectedProductsList))]_vars

C15_Witness ==
    /\ showReceipt
    /\ Len(purchaseData.products) >= 2
    /\ \E i, j \in 1..Len(purchaseData.products) :
          /\ purchaseData.products[i].quantity >= 2
          /\ purchaseData.products[j].price # purchaseData.products[i].price
    /\ purchaseData.totalPrice = SumPriceQty(purchaseData.products)

\* C17: every line of the cart has a quantity of at least 1.
C17_QuantityAtLeastOne ==
    \A i \in 1..Len(selectedProducts) : selectedProducts[i].quantity >= 1

C17_Witness ==
    /\ Len(selectedProducts) >= 2
    /\ \E i, j \in 1..Len(selectedProducts) :
          /\ selectedProducts[i].quantity = 1
          /\ selectedProducts[j].quantity >= 2
    /\ showProductModal /\ editingProductId # 0
    /\ quantityInModal = 1
    /\ \E i \in 1..Len(selectedProducts) :
          /\ selectedProducts[i].id = editingProductId
          /\ selectedProducts[i].quantity >= 2

====
